---------------------------- MODULE Spec2Model ----------------------------
(***************************************************************************)
(* A model of cloud_path.CloudPath (src/cloud_path/cloud_path.py): the     *)
(* constructor that decides which filesystem a path carries, and the       *)
(* methods that delegate to that filesystem.                               *)
(*                                                                         *)
(* A string is a sequence of one-character strings, so that joining and    *)
(* normalising a path are computed character by character, as pathlib      *)
(* does.  A filesystem (an fsspec AbstractFileSystem) is one of the names   *)
(* in FS; None is Python's None.                                            *)
(***************************************************************************)
EXTENDS Integers, Sequences, FiniteSets, TLC

VARIABLES
    args,        \* SpecNew: the positional arguments of the construction call
    filesystem,  \* SpecNew: its filesystem keyword
    made,        \* SpecNew: what the construction call produced
    attempt,     \* SpecNew: the method then called on the produced object
    p,           \* SpecOps: the CloudPath the methods are called on
    stored,      \* SpecOps: whether p's path exists on p's filesystem
    last,        \* SpecOps: the last method call, what it did and returned
    handles,     \* SpecOps: streams obtained from filesystem.open, still open
    dirs,        \* SpecRace: the paths that exist on the shared filesystem
    callers      \* SpecRace: each caller's position inside mkdir

vars == <<args, filesystem, made, attempt, p, stored, last, handles, dirs, callers>>

None == "None"
FS == {"fsA", "fsB"}
SEP == "/"
Chars == {"/", ".", "a"}

\* Bounds of the model.
MaxFragLen == 1
MaxArgs == 2
MaxLen == 3
MaxOpen == 2

RECURSIVE StrsOfLen(_, _)
StrsOfLen(alphabet, n) ==
    IF n = 0 THEN {<<>>}
    ELSE {Append(s, c) : s \in StrsOfLen(alphabet, n - 1), c \in alphabet}

StrsUpTo(alphabet, n) == UNION {StrsOfLen(alphabet, k) : k \in 0..n}

Sub == <<"s", "u", "b">>

(***************************************************************************)
(* pathlib: Path of several parts joins them as posixpath.join does and   *)
(* str(Path) is the normalised form: empty and "." segments dropped, the   *)
(* root "/" (or "//" for exactly two leading slashes) kept, "." when        *)
(* nothing is left.                                                        *)
(***************************************************************************)
RECURSIVE LeadingSeps(_)
LeadingSeps(s) ==
    IF s = <<>> \/ Head(s) # SEP THEN 0 ELSE 1 + LeadingSeps(Tail(s))

Root(s) ==
    LET n == LeadingSeps(s)
    IN  IF n = 0 THEN <<>> ELSE IF n = 2 THEN <<SEP, SEP>> ELSE <<SEP>>

KeepSegment(seg) == IF seg = <<>> \/ seg = <<".">> THEN <<>> ELSE <<seg>>

RECURSIVE Segments(_, _)
Segments(s, cur) ==
    IF s = <<>> THEN KeepSegment(cur)
    ELSE IF Head(s) = SEP THEN KeepSegment(cur) \o Segments(Tail(s), <<>>)
    ELSE Segments(Tail(s), Append(cur, Head(s)))

RECURSIVE JoinSegments(_)
JoinSegments(segs) ==
    IF segs = <<>> THEN <<>>
    ELSE IF Len(segs) = 1 THEN segs[1]
    ELSE segs[1] \o <<SEP>> \o JoinSegments(Tail(segs))

PathStr(s) ==
    LET r == Root(s)
        segs == Segments(s, <<>>)
    IN  IF r = <<>> /\ segs = <<>> THEN <<".">> ELSE r \o JoinSegments(segs)

PosixJoin2(a, b) ==
    IF b # <<>> /\ Head(b) = SEP THEN b
    ELSE IF a = <<>> \/ a[Len(a)] = SEP THEN a \o b
    ELSE a \o <<SEP>> \o b

RECURSIVE PosixJoin(_)
PosixJoin(parts) ==
    IF parts = <<>> THEN <<>>
    ELSE IF Len(parts) = 1 THEN parts[1]
    ELSE PosixJoin(<<PosixJoin2(parts[1], parts[2])>> \o SubSeq(parts, 3, Len(parts)))


(***************************************************************************)
(* The values a construction call is given and produces.  An argument is   *)
(* a str, a pathlib.Path, a CloudPath (which always has a filesystem: the  *)
(* constructor returns a CloudPath only with one) or a filesystem.         *)
(***************************************************************************)
StrArg(s) == [kind |-> "str", str |-> s, filesystem |-> None]
PathObj(s) == [kind |-> "Path", str |-> s, filesystem |-> None]
CloudObj(s, f) == [kind |-> "CloudPath", str |-> s, filesystem |-> f]
FsArg(f) == [kind |-> "fs", str |-> <<>>, filesystem |-> f]
Raised(e) == [kind |-> e, str |-> <<>>, filesystem |-> None]
NoObj == [kind |-> "none", str |-> <<>>, filesystem |-> None]

Errors == {"IndexError", "TypeError"}
Returned(r) == r.kind \in {"Path", "CloudPath"}

FragStrs == StrsUpTo(Chars, MaxFragLen)
FragPaths == {PathStr(s) : s \in FragStrs}
Components ==
    {StrArg(s) : s \in FragStrs}
        \cup {PathObj(s) : s \in FragPaths}
        \cup {CloudObj(s, f) : s \in FragPaths, f \in FS}
        \cup {FsArg(f) : f \in FS}
ArgLists == UNION {[1..n -> Components] : n \in 0..MaxArgs}

IsFilesystem(arg) == arg.kind = "fs"
IsCloudPath(arg) == arg.kind = "CloudPath"

\* Path(*parts): a part that is neither a str nor a path is a TypeError.
Path(parts) ==
    IF \E i \in 1..Len(parts) : IsFilesystem(parts[i])
    THEN Raised("TypeError")
    ELSE PathObj(PathStr(PosixJoin([i \in 1..Len(parts) |-> parts[i].str])))

\* "filesystem is None and isinstance(args[-1], AbstractFileSystem)"; args[-1]
\* of no arguments is an IndexError, which CloudPath_new raises before this.
LastIsFilesystem(as, fs) == fs = None /\ IsFilesystem(as[Len(as)])

PathArgs(as, fs) ==
    IF LastIsFilesystem(as, fs) THEN SubSeq(as, 1, Len(as) - 1) ELSE as

GivenFilesystem(as, fs) ==
    IF LastIsFilesystem(as, fs) THEN as[Len(as)].filesystem ELSE fs

HasCloudArg(as) == \E i \in 1..Len(as) : IsCloudPath(as[i])

\* The slip of taking the last CloudPath argument instead of the first.
LastCloudArg(as) ==
    as[CHOOSE i \in 1..Len(as) :
            IsCloudPath(as[i]) /\ \A j \in (i + 1)..Len(as) : ~IsCloudPath(as[j])]

\* next(arg for arg in args if isinstance(arg, CloudPath))
FirstCloudArg(as) ==
    as[CHOOSE i \in 1..Len(as) :
            IsCloudPath(as[i]) /\ \A j \in 1..(i - 1) : ~IsCloudPath(as[j])]

InheritedFilesystem(as, fs) ==
    IF HasCloudArg(as) THEN FirstCloudArg(as).filesystem
    ELSE GivenFilesystem(as, fs)

\* The slip of never taking the plain-Path branch.
NeverNoFilesystem(fs) == FALSE

\* "if not filesystem"
NoFilesystem(fs) == fs = None

CloudPath_new(as, fs) ==
    IF fs = None /\ as = <<>> THEN Raised("IndexError")
    ELSE LET path == Path(PathArgs(as, fs))
             f == InheritedFilesystem(as, fs)
         IN  IF ~Returned(path) THEN path
             ELSE IF NoFilesystem(f) THEN Path(<<StrArg(path.str)>>)
             ELSE CloudObj(Path(<<StrArg(path.str)>>).str, f)

(***************************************************************************)
(* The call CloudPath(...): __new__, and then, when __new__ returned a     *)
(* CloudPath, the interpreter calls __init__ with the same arguments.      *)
(* Path.__init__ of Python 3.12 and later parses them again and raises     *)
(* TypeError on a filesystem among them; earlier ones ignore them.         *)
(***************************************************************************)
Construct(as, fs) ==
    LET obj == CloudPath_new(as, fs)
    IN  IF IsCloudPath(obj) /\ \E i \in 1..Len(as) : IsFilesystem(as[i])
        THEN {obj, Raised("TypeError")}
        ELSE {obj}

(***************************************************************************)
(* A method called on the plain Path the constructor returned without a    *)
(* filesystem.  The object is a pathlib.Path: ls, remove and rm are not    *)
(* methods of it, the others are pathlib's own, acting on the local file   *)
(* system ("local").  Python 3.12 and later leave the object returned by   *)
(* line 36 uninitialised, and every method of it raises AttributeError.    *)
(***************************************************************************)
Methods ==
    {"ls", "glob", "exists", "is_dir", "is_file", "iterdir", "mkdir", "rmdir",
     "unlink", "remove", "rm", "open", "read_text", "write_text", "read_bytes",
     "write_bytes", "rename"}

PathMethodOutcomes(m) ==
    IF m \in {"ls", "remove", "rm"} THEN {"AttributeError"}
    ELSE {"local", "AttributeError"}

NoAttempt == [method |-> "none", outcome |-> "none", filesystem |-> None]

Callers == {"c1", "c2"}
IdleCaller ==
    [pc |-> "idle", self |-> NoObj, exist_ok |-> FALSE, check |-> <<>>,
     raised |-> None, by |-> "none", made |-> 0, on_existing |-> FALSE]
NoCallers == [c \in Callers |-> IdleCaller]

NoHandles == [caller |-> 0, helper |-> 0]

Idle ==
    [op |-> "none", arg |-> <<>>, flag |-> FALSE, self |-> NoObj, before |-> FALSE,
     calls |-> <<>>, raised |-> None, ret |-> NoObj, opened |-> 0, closes |-> 0]

InitNew ==
    /\ args \in ArgLists
    /\ filesystem \in FS \cup {None}
    /\ made = NoObj
    /\ attempt = NoAttempt
    /\ p = NoObj /\ stored = FALSE /\ last = Idle /\ handles = NoHandles
    /\ dirs = {} /\ callers = NoCallers

New ==
    /\ made = NoObj
    /\ made' \in Construct(args, filesystem)
    /\ UNCHANGED <<args, filesystem, attempt, p, stored, last, handles, dirs, callers>>

\* A method of the produced object is called.  A CloudPath forwards it to its
\* filesystem (SpecOps models what each method then does).
Attempt(m) ==
    /\ Returned(made)
    /\ attempt = NoAttempt
    /\ IF IsCloudPath(made)
       THEN attempt' = [method |-> m, outcome |-> "delegated",
                        filesystem |-> made.filesystem]
       ELSE \E o \in PathMethodOutcomes(m) :
                attempt' = [method |-> m, outcome |-> o, filesystem |-> None]
    /\ UNCHANGED <<args, filesystem, made, p, stored, last, handles, dirs, callers>>

NextNew == New \/ \E m \in Methods : Attempt(m)

SpecNew == InitNew /\ [][NextNew]_vars


(***************************************************************************)
(* Claims about construction, under SpecNew.                               *)
(***************************************************************************)
BoundAt(as) == {i \in 1..Len(as) : as[i].kind = "CloudPath"}
EarliestBound(as) == as[CHOOSE i \in BoundAt(as) : \A j \in BoundAt(as) : i <= j]
TrailingBackend == args # <<>> /\ args[Len(args)].kind = "fs"
ExplicitGiven == filesystem # None
NothingResolved == ~ExplicitGiven /\ ~TrailingBackend /\ BoundAt(args) = {}

\* C1: whenever the filesystem keyword is given, the constructed path carries
\* that filesystem, whatever the arguments are, bound paths of another
\* filesystem included.
C1_ExplicitBackendWins ==
    (ExplicitGiven /\ Returned(made))
        => (made.kind = "CloudPath" /\ made.filesystem = filesystem)

\* C3: with no filesystem keyword and no trailing filesystem argument, the
\* constructed path carries the filesystem of the earliest argument that is
\* a CloudPath.
C3_FirstBoundWins ==
    (~ExplicitGiven /\ ~TrailingBackend /\ BoundAt(args) # {} /\ Returned(made))
        => (made.kind = "CloudPath"
            /\ made.filesystem = EarliestBound(args).filesystem)

C3_Witness ==
    /\ ~ExplicitGiven /\ Len(args) = 2
    /\ args[1].kind = "CloudPath" /\ args[2].kind = "CloudPath"
    /\ args[1].filesystem = "fsB" /\ args[2].filesystem = "fsA"
    /\ made.kind = "CloudPath" /\ made.filesystem = "fsB"

\* C8: with no filesystem keyword and a filesystem F as the last argument,
\* the constructed path carries F, and its string is the join of the
\* arguments before F.
C8_TrailingBackendWins ==
    (~ExplicitGiven /\ TrailingBackend /\ Returned(made))
        => (/\ made.kind = "CloudPath"
            /\ made.filesystem = args[Len(args)].filesystem
            /\ made.str = PathStr(PosixJoin([i \in 1..(Len(args) - 1) |-> args[i].str])))

Call(m, path, arg, flag) == [method |-> m, path |-> path, arg |-> arg, flag |-> flag]
Outcome(e, st) == [raised |-> e, stored |-> st]

fs_exists(st) == st

fs_makedirs(st, exist_ok) ==
    IF st /\ ~exist_ok THEN Outcome("FileExistsError", st) ELSE Outcome(None, TRUE)

fs_delete(st) ==
    IF st THEN Outcome(None, FALSE) ELSE Outcome("FileNotFoundError", st)

fs_mv(st, src, dst) ==
    IF st THEN Outcome(None, dst = src) ELSE Outcome("FileNotFoundError", st)

ReadModes == {<<"r">>, <<"r", "b">>}
WriteModes == {<<"w">>, <<"w", "b">>}
Modes == ReadModes \cup WriteModes

fs_open(st, mode) ==
    IF mode \in ReadModes /\ ~st THEN Outcome("FileNotFoundError", st)
    ELSE Outcome(None, st \/ mode \in WriteModes)

(***************************************************************************)
(* The methods of CloudPath.  Each is given the path, whether it exists    *)
(* on its filesystem and its arguments, and yields what the call did: the  *)
(* filesystem calls it made in order, the exception it raised (None when   *)
(* it returned), whether the path exists afterwards, the path it returned, *)
(* and the streams it obtained and closed.                                 *)
(***************************************************************************)
Effect(calls, e, st, ret, opened, closes) ==
    [calls |-> calls, raised |-> e, stored |-> st, ret |-> ret,
     opened |-> opened, closes |-> closes]

get_fs_path(self) == self.str

exists(self, st) ==
    Effect(<<Call("exists", get_fs_path(self), <<>>, fs_exists(st))>>,
           None, st, NoObj, 0, 0)

\* "not exist_ok and self.exists()": exists is called only without exist_ok.
mkdir_check(self, st, exist_ok) ==
    IF exist_ok THEN <<>> ELSE exists(self, st).calls

\* The slip of leaving the existence check out.
mkdir_never_raises(exist_ok, check) == FALSE

mkdir_raises(exist_ok, check) ==
    ~exist_ok /\ check[1].flag

\* The slip of looking again before the call: no makedirs on a path that
\* exists by now.
mkdir_call_rechecked(self, st, exist_ok) ==
    IF st /\ ~exist_ok
    THEN [calls |-> <<>>, raised |-> "FileExistsError", stored |-> st, by |-> "mkdir"]
    ELSE [calls |-> <<Call("makedirs", get_fs_path(self), <<>>, exist_ok)>>,
          raised |-> None, stored |-> TRUE, by |-> "none"]

\* "self.filesystem.makedirs(self._get_fs_path(), exist_ok=exist_ok)", given
\* whether the path exists when the call is made.
mkdir_call(self, st, exist_ok) ==
    LET mk == fs_makedirs(st, exist_ok)
    IN  [calls |-> <<Call("makedirs", get_fs_path(self), <<>>, exist_ok)>>,
         raised |-> mk.raised, stored |-> mk.stored,
         by |-> IF mk.raised = None THEN "none" ELSE "makedirs"]

mkdir(self, st, exist_ok) ==
    LET check == mkdir_check(self, st, exist_ok)
        mk == mkdir_call(self, st, exist_ok)
    IN  IF mkdir_raises(exist_ok, check)
        THEN Effect(check, "FileExistsError", st, NoObj, 0, 0)
        ELSE Effect(check \o mk.calls, mk.raised, mk.stored, NoObj, 0, 0)

unlink(self, st, missing_ok) ==
    LET d == fs_delete(st)
    IN  Effect(<<Call("delete", get_fs_path(self), <<>>, FALSE)>>,
               IF d.raised = "FileNotFoundError" /\ missing_ok THEN None ELSE d.raised,
               d.stored, NoObj, 0, 0)

\* The slip of not passing missing_ok on.
remove_strict(self, st, missing_ok) == unlink(self, st, FALSE)

remove(self, st, missing_ok) == unlink(self, st, missing_ok)

rm(self, st, missing_ok) == unlink(self, st, missing_ok)

open(self, st, mode) ==
    LET o == fs_open(st, mode)
    IN  Effect(<<Call("open", get_fs_path(self), mode, FALSE)>>, o.raised, o.stored,
               NoObj, IF o.raised = None THEN 1 ELSE 0, 0)

\* The slip of closing the stream only after a read or write that succeeded.
with_exit_on_success(failed) == IF failed THEN 0 ELSE 1

\* Leaving a "with" block closes the stream, whether the block raised or not.
with_exit(failed) == 1

\* "with self.open(mode) as f:" and one read or write in it, which may fail.
with_open(self, st, mode, failed) ==
    LET o == open(self, st, mode)
    IN  IF o.raised # None THEN o
        ELSE Effect(o.calls, IF failed THEN "OSError" ELSE None, o.stored, NoObj,
                    o.opened, with_exit(failed))

read_text(self, st, failed) == with_open(self, st, <<"r">>, failed)
write_text(self, st, failed) == with_open(self, st, <<"w">>, failed)
read_bytes(self, st, failed) == with_open(self, st, <<"r", "b">>, failed)
write_bytes(self, st, failed) == with_open(self, st, <<"w", "b">>, failed)

\* The slip of returning the path renamed from instead of the target.
rename_self(self, st, target) ==
    LET mv == fs_mv(st, get_fs_path(self), target)
        call == <<Call("mv", get_fs_path(self), target, FALSE)>>
    IN  IF mv.raised # None THEN Effect(call, mv.raised, mv.stored, NoObj, 0, 0)
        ELSE Effect(call, None, mv.stored,
                    CloudPath_new(<<StrArg(get_fs_path(self))>>, self.filesystem), 0, 0)

rename(self, st, target) ==
    LET mv == fs_mv(st, get_fs_path(self), target)
        call == <<Call("mv", get_fs_path(self), target, FALSE)>>
    IN  IF mv.raised # None THEN Effect(call, mv.raised, mv.stored, NoObj, 0, 0)
        ELSE Effect(call, None, mv.stored,
                    CloudPath_new(<<StrArg(target)>>, self.filesystem), 0, 0)

\* The slip of appending the segment to the string instead of joining it.
truediv_concat(self, st, other) ==
    Effect(<<>>, None, st,
           CloudPath_new(<<StrArg(get_fs_path(self) \o other)>>, self.filesystem),
           0, 0)

truediv(self, st, other) ==
    Effect(<<>>, None, st,
           CloudPath_new(<<StrArg(get_fs_path(self)), StrArg(other)>>, self.filesystem),
           0, 0)

(***************************************************************************)
(* SpecOps: method calls, one after the other, on a CloudPath p.           *)
(***************************************************************************)
Targets == StrsUpTo(Chars, MaxLen)
Others == {Sub} \cup FragStrs
BoundPaths == {CloudPath_new(<<StrArg(s)>>, f) : s \in Targets, f \in FS}

InitOps ==
    /\ p \in BoundPaths
    /\ stored \in BOOLEAN
    /\ last = Idle
    /\ handles = NoHandles
    /\ args = <<>> /\ filesystem = None /\ made = NoObj /\ attempt = NoAttempt
    /\ dirs = {} /\ callers = NoCallers

Did(op, arg, flag, eff) ==
    /\ last' = [op |-> op, arg |-> arg, flag |-> flag, self |-> p, before |-> stored,
                calls |-> eff.calls, raised |-> eff.raised, ret |-> eff.ret,
                opened |-> eff.opened, closes |-> eff.closes]
    /\ stored' = eff.stored
    /\ UNCHANGED <<p, args, filesystem, made, attempt, dirs, callers>>

Exists == Did("exists", <<>>, FALSE, exists(p, stored)) /\ UNCHANGED handles

Mkdir(exist_ok) ==
    Did("mkdir", <<>>, exist_ok, mkdir(p, stored, exist_ok)) /\ UNCHANGED handles

Unlink(missing_ok) ==
    Did("unlink", <<>>, missing_ok, unlink(p, stored, missing_ok)) /\ UNCHANGED handles

Remove(missing_ok) ==
    Did("remove", <<>>, missing_ok, remove(p, stored, missing_ok)) /\ UNCHANGED handles

Rm(missing_ok) ==
    Did("rm", <<>>, missing_ok, rm(p, stored, missing_ok)) /\ UNCHANGED handles

Rename(target) ==
    Did("rename", target, FALSE, rename(p, stored, target)) /\ UNCHANGED handles

Truediv(other) ==
    Did("truediv", other, FALSE, truediv(p, stored, other)) /\ UNCHANGED handles

\* open() hands the stream to the caller, who owns it from then on.
Open(mode) ==
    /\ handles.caller < MaxOpen
    /\ LET eff == open(p, stored, mode)
       IN  /\ Did("open", mode, FALSE, eff)
           /\ handles' = [handles EXCEPT !.caller = @ + eff.opened]

Helper(op, eff) ==
    /\ Did(op, <<>>, FALSE, eff)
    /\ handles' = [handles EXCEPT !.helper = @ + eff.opened - eff.closes]

ReadText == \E failed \in BOOLEAN : Helper("read_text", read_text(p, stored, failed))
WriteText == \E failed \in BOOLEAN : Helper("write_text", write_text(p, stored, failed))
ReadBytes == \E failed \in BOOLEAN : Helper("read_bytes", read_bytes(p, stored, failed))
WriteBytes == \E failed \in BOOLEAN : Helper("write_bytes", write_bytes(p, stored, failed))

NextOps ==
    \/ Exists
    \/ \E b \in BOOLEAN : Mkdir(b) \/ Unlink(b) \/ Remove(b) \/ Rm(b)
    \/ \E t \in Targets : Rename(t)
    \/ \E o \in Others : Truediv(o)
    \/ \E m \in Modes : Open(m)
    \/ ReadText \/ WriteText \/ ReadBytes \/ WriteBytes

SpecOps == InitOps /\ [][NextOps]_vars


(***************************************************************************)
(* Claims about the methods, under SpecOps.                                *)
(***************************************************************************)
CallsTo(m) == {i \in DOMAIN last.calls : last.calls[i].method = m}
ReportedExisting == \E i \in CallsTo("exists") : last.calls[i].flag
HelperOps == {"read_text", "write_text", "read_bytes", "write_bytes"}
IsRootStr(s) == s \in {<<SEP>>, <<SEP, SEP>>}
EmptyPathStr == <<".">>

\* C4: mkdir calls the filesystem's makedirs exactly once, with the path and
\* exist_ok, unless exist_ok is false and the existence check reported the
\* path as existing: then it raises FileExistsError and makedirs is not
\* called.  With exist_ok true on an existing path it succeeds, with one
\* makedirs call.
C4_Mkdir ==
    last.op = "mkdir" =>
        IF ~last.flag /\ ReportedExisting
        THEN last.raised = "FileExistsError" /\ CallsTo("makedirs") = {}
        ELSE /\ Cardinality(CallsTo("makedirs")) = 1
             /\ \A i \in CallsTo("makedirs") :
                    last.calls[i] = Call("makedirs", last.self.str, <<>>, last.flag)
             /\ (last.flag /\ last.before) => last.raised = None

C4_Witness ==
    /\ last.op = "mkdir" /\ ~last.flag /\ last.before
    /\ last.raised = "FileExistsError" /\ CallsTo("makedirs") = {}

\* C5: unlink, remove and rm each call the filesystem's delete exactly once
\* with the path's string; when the filesystem raises FileNotFoundError the
\* call returns normally with missing_ok and raises it without; the three
\* behave alike for both values of missing_ok.
C5_Unlink ==
    last.op \in {"unlink", "remove", "rm"} =>
        /\ last.calls = <<Call("delete", last.self.str, <<>>, FALSE)>>
        /\ last.before => last.raised = None
        /\ ~last.before =>
               last.raised = (IF last.flag THEN None ELSE "FileNotFoundError")

C5_Witness ==
    /\ last.op = "remove" /\ ~last.before /\ last.flag /\ last.raised = None
    /\ Len(last.calls) = 1

\* C6 as stated: rename calls the filesystem's mv exactly once with the
\* path's string and the target, leaves the path unchanged and (when mv
\* returns) returns a CloudPath whose string is the target and whose
\* filesystem is the path's.
C6_RenameExact ==
    last.op = "rename" =>
        /\ last.calls = <<Call("mv", last.self.str, last.arg, FALSE)>>
        /\ p = last.self
        /\ last.raised = None =>
               /\ last.ret.kind = "CloudPath"
               /\ last.ret.str = last.arg
               /\ last.ret.filesystem = last.self.filesystem

\* C6 as amended: rename calls mv exactly once with the path's string and
\* the target and leaves the path unchanged; when mv raises, so does rename,
\* and when mv returns, rename returns a CloudPath on the path's filesystem
\* whose string is the target in pathlib's normal form, which is the target
\* itself exactly when the target is in that form already.
C6_RenameNormalised ==
    last.op = "rename" =>
        /\ last.calls = <<Call("mv", last.self.str, last.arg, FALSE)>>
        /\ p = last.self
        /\ last.raised # None => last.ret = NoObj
        /\ last.raised = None =>
               /\ last.ret.kind = "CloudPath"
               /\ last.ret.filesystem = last.self.filesystem
               /\ last.ret.str = PathStr(last.arg)
               /\ Segments(last.ret.str, <<>>) = Segments(last.arg, <<>>)

C6_Witness ==
    /\ last.op = "rename" /\ last.raised = None
    /\ last.arg = <<"a", "/", "/">> /\ last.ret.str = <<"a">>

\* C7 as stated: for a non-empty path p, the root included, p / "sub" is a
\* path on p's filesystem whose string is p's string followed by "/sub".
C7_JoinSubAppends ==
    (last.op = "truediv" /\ last.arg = Sub /\ last.self.str # EmptyPathStr) =>
        /\ last.ret.kind = "CloudPath"
        /\ last.ret.filesystem = last.self.filesystem
        /\ last.ret.str = last.self.str \o <<SEP>> \o Sub

\* C7 as amended: for a non-empty path p, p / "sub" is a path on p's
\* filesystem whose string is p's string followed by "/sub", except that for
\* a root ("/" or "//") it is p's string followed by "sub".
C7_JoinSubNonRoot ==
    (last.op = "truediv" /\ last.arg = Sub /\ last.self.str # EmptyPathStr) =>
        /\ last.ret.kind = "CloudPath"
        /\ last.ret.filesystem = last.self.filesystem
        /\ last.ret.str = (IF IsRootStr(last.self.str)
                           THEN last.self.str \o Sub
                           ELSE last.self.str \o <<SEP>> \o Sub)

C7_Witness ==
    /\ last.op = "truediv" /\ last.arg = Sub
    /\ last.self.str = <<SEP>> /\ last.ret.str = <<SEP>> \o Sub

\* C9: every read_text, read_bytes, write_text or write_bytes that obtained
\* a stream from the filesystem's open has closed it exactly once when it
\* returns or raises, also when its read or write failed; no stream opened
\* by them is ever left open.
C9_StreamsReleased ==
    /\ handles.helper = 0
    /\ last.op \in HelperOps =>
           /\ last.closes = last.opened
           /\ last.opened = (IF Len(last.calls) = 1 /\ last.raised # "FileNotFoundError"
                             THEN 1 ELSE 0)

C9_Witness ==
    /\ last.op = "write_bytes" /\ last.raised = "OSError"
    /\ last.opened = 1 /\ last.closes = 1 /\ handles.caller > 0


(***************************************************************************)
(* SpecRace: two callers inside mkdir at once, each with a CloudPath on    *)
(* the same filesystem.  mkdir makes two filesystem calls, exists (line    *)
(* 80) and makedirs (line 82), with no lock around them: another caller's  *)
(* call may come between.                                                  *)
(***************************************************************************)
RaceFs == "fsA"
RacePaths == {CloudPath_new(<<StrArg(s)>>, RaceFs) : s \in {<<"a">>, <<"/", "a">>}}

InitRace ==
    /\ dirs \in SUBSET {q.str : q \in RacePaths}
    /\ callers = NoCallers
    /\ args = <<>> /\ filesystem = None /\ made = NoObj /\ attempt = NoAttempt
    /\ p = NoObj /\ stored = FALSE /\ last = Idle /\ handles = NoHandles

RaceUnchanged == UNCHANGED <<args, filesystem, made, attempt, p, stored, last, handles>>

\* mkdir up to its makedirs call: "if not exist_ok and self.exists(): raise".
MkdirEnter(c, self, exist_ok) ==
    /\ callers[c].pc = "idle"
    /\ LET check == mkdir_check(self, get_fs_path(self) \in dirs, exist_ok)
       IN  callers' = [callers EXCEPT ![c] =
               IF mkdir_raises(exist_ok, check)
               THEN [pc |-> "done", self |-> self, exist_ok |-> exist_ok,
                     check |-> check, raised |-> "FileExistsError", by |-> "mkdir",
                     made |-> 0, on_existing |-> FALSE]
               ELSE [pc |-> "checked", self |-> self, exist_ok |-> exist_ok,
                     check |-> check, raised |-> None, by |-> "none",
                     made |-> 0, on_existing |-> FALSE]]
    /\ UNCHANGED dirs
    /\ RaceUnchanged

\* mkdir's makedirs call, on the filesystem as it is by then.
MkdirCall(c) ==
    /\ callers[c].pc = "checked"
    /\ LET self == callers[c].self
           here == get_fs_path(self) \in dirs
           mk == mkdir_call(self, here, callers[c].exist_ok)
       IN  /\ callers' = [callers EXCEPT ![c] =
                   [@ EXCEPT !.pc = "done", !.raised = mk.raised, !.by = mk.by,
                             !.made = Len(mk.calls),
                             !.on_existing = here /\ Len(mk.calls) > 0]]
           /\ dirs' = IF mk.stored THEN dirs \cup {get_fs_path(self)}
                      ELSE dirs \ {get_fs_path(self)}
    /\ RaceUnchanged

MkdirReturn(c) ==
    /\ callers[c].pc = "done"
    /\ callers' = [callers EXCEPT ![c] = IdleCaller]
    /\ UNCHANGED dirs
    /\ RaceUnchanged

NextRace ==
    \E c \in Callers :
        \/ \E self \in RacePaths, exist_ok \in BOOLEAN : MkdirEnter(c, self, exist_ok)
        \/ MkdirCall(c)
        \/ MkdirReturn(c)

SpecRace == InitRace /\ [][NextRace]_vars

\* C10: mkdir's existence check and its makedirs call are not one atomic
\* step.  A caller of mkdir(exist_ok=False) raises FileExistsError itself
\* exactly when its own check reported the path as existing; once its check
\* reported the path as absent it calls makedirs exactly once, without
\* looking again, so that with two callers makedirs is called on a path
\* that exists by then (C10_Witness).
C10_CheckThenCall ==
    \A c \in Callers :
        (callers[c].pc = "done" /\ ~callers[c].exist_ok) =>
            /\ callers[c].by = "mkdir" <=> callers[c].check[1].flag
            /\ callers[c].by = "mkdir" => callers[c].made = 0
            /\ ~callers[c].check[1].flag => callers[c].made = 1

C10_Witness ==
    /\ \A c \in Callers :
           /\ callers[c].pc = "done" /\ ~callers[c].exist_ok
           /\ callers[c].self = callers["c1"].self
           /\ ~callers[c].check[1].flag
           /\ callers[c].made = 1 /\ callers[c].by # "mkdir"
    /\ \E c \in Callers : callers[c].on_existing

=============================================================================
